---- MODULE Spec2Model ----
(***************************************************************************)
(* The Rgb spectral value of src/spectrum.rs: a wrapper around a           *)
(* three-channel tuple of f32 (vek::vec::Rgb<f32>) with componentwise       *)
(* arithmetic, in-place variants, Sum, saturated(), is_black(), is_nan()    *)
(* and max_channel().                                                       *)
(*                                                                         *)
(* An f32 is modelled bit-exactly as its three IEEE-754 binary32 fields:    *)
(* [s |-> sign bit, e |-> biased exponent 0..255, m |-> 23-bit fraction].   *)
(* Arithmetic rounds to nearest, ties to even, as Rust's f32 operators do.  *)
(* A NaN result is always the canonical quiet NaN: no operation of the      *)
(* program observes a NaN's sign or payload.                                *)
(***************************************************************************)
EXTENDS Integers, Sequences, FiniteSets

(***************************************************************************)
(* IEEE-754 binary32                                                       *)
(***************************************************************************)
Float(s, e, m) == [s |-> s, e |-> e, m |-> m]

Hidden == 2^23

NAN == Float(0, 255, 2^22)

INF(s) == Float(s, 255, 0)

ZERO(s) == Float(s, 0, 0)

\* f32::is_nan
IsNaNF(x) == x.e = 255 /\ x.m # 0

IsInfF(x) == x.e = 255 /\ x.m = 0

IsZeroF(x) == x.e = 0 /\ x.m = 0

IsFiniteF(x) == x.e # 255

\* significand and exponent with value = Sig * 2^(Exp - 150)
Sig(x) == IF x.e = 0 THEN x.m ELSE Hidden + x.m

Exp(x) == IF x.e = 0 THEN 1 ELSE x.e

Mag(x) == x.e * Hidden + x.m

\* position on the real line of a non-NaN value; -0.0 and +0.0 coincide
Key(x) == IF x.s = 1 THEN 0 - Mag(x) ELSE Mag(x)

\* f32's PartialEq / PartialOrd: every comparison with a NaN is false
FEq(x, y) == ~IsNaNF(x) /\ ~IsNaNF(y) /\ Key(x) = Key(y)

FLt(x, y) == ~IsNaNF(x) /\ ~IsNaNF(y) /\ Key(x) < Key(y)

FGe(x, y) == ~IsNaNF(x) /\ ~IsNaNF(y) /\ Key(x) >= Key(y)

FLe(x, y) == ~IsNaNF(x) /\ ~IsNaNF(y) /\ Key(x) <= Key(y)

FNeg(x) == IF IsNaNF(x) THEN NAN ELSE Float(1 - x.s, x.e, x.m)

RECURSIVE BitLen(_)
BitLen(n) == IF n = 0 THEN 0 ELSE 1 + BitLen(n \div 2)

\* n shifted right by d bits, the bits shifted out OR-ed into the lowest bit
ShiftRightJam(n, d) ==
  IF d = 0 THEN n
  ELSE IF d >= 31 THEN (IF n # 0 THEN 1 ELSE 0)
  ELSE LET q == n \div (2^d)
           r == n % (2^d)
       IN IF r # 0 /\ q % 2 = 0 THEN q + 1 ELSE q

\* n / 2^k rounded to the nearest integer, ties to even (n < 2^30)
RoundShift(n, k) ==
  IF k >= 31 THEN 0
  ELSE LET q == n \div (2^k)
           r == n % (2^k)
           half == 2^(k - 1)
       IN IF r > half \/ (r = half /\ q % 2 = 1) THEN q + 1 ELSE q

\* the f32 nearest to (-1)^s * n * 2^(ex - 150); n < 2^30 carries a sticky
\* lowest bit whenever it is inexact
RoundPack(s, n, ex) ==
  IF n = 0 THEN ZERO(s)
  ELSE LET len == BitLen(n)
           k == IF len - 24 > 1 - ex THEN len - 24 ELSE 1 - ex
           t == IF 24 - len < ex - 1 THEN 24 - len ELSE ex - 1
           q0 == IF k > 0 THEN RoundShift(n, k) ELSE n * (2^t)
           e0 == IF k > 0 THEN ex + k ELSE ex - t
           q == IF q0 = 2 * Hidden THEN Hidden ELSE q0
           e1 == IF q0 = 2 * Hidden THEN e0 + 1 ELSE e0
       IN IF q >= Hidden
          THEN (IF e1 >= 255 THEN INF(s) ELSE Float(s, e1, q - Hidden))
          ELSE Float(s, 0, q)

\* f32 + f32
FAdd(x, y) ==
  IF IsNaNF(x) \/ IsNaNF(y) THEN NAN
  ELSE IF IsInfF(x) THEN (IF IsInfF(y) /\ x.s # y.s THEN NAN ELSE x)
  ELSE IF IsInfF(y) THEN y
  ELSE IF IsZeroF(x) /\ IsZeroF(y) THEN ZERO(IF x.s = 1 /\ y.s = 1 THEN 1 ELSE 0)
  ELSE LET big == IF Mag(x) >= Mag(y) THEN x ELSE y
           small == IF Mag(x) >= Mag(y) THEN y ELSE x
           d == Exp(big) - Exp(small)
           X == Sig(big) * 8
           Y == ShiftRightJam(Sig(small) * 8, d)
           n == IF big.s = small.s THEN X + Y ELSE X - Y
       IN IF n = 0 THEN ZERO(0) ELSE RoundPack(big.s, n, Exp(big) - 3)

\* f32 - f32
FSub(x, y) == FAdd(x, FNeg(y))

\* a significand shifted left until its top bit is bit 23, with its exponent
RECURSIVE NormSig(_, _)
NormSig(n, ex) ==
  IF n >= Hidden THEN [n |-> n, ex |-> ex] ELSE NormSig(2 * n, ex - 1)

\* f32 * f32: the 48-bit product of the significands is formed from 12-bit
\* halves, its top 28 bits kept with a sticky bit
FMul(x, y) ==
  LET s == IF x.s = y.s THEN 0 ELSE 1
  IN IF IsNaNF(x) \/ IsNaNF(y) THEN NAN
     ELSE IF IsInfF(x) \/ IsInfF(y)
          THEN (IF IsZeroF(x) \/ IsZeroF(y) THEN NAN ELSE INF(s))
     ELSE IF IsZeroF(x) \/ IsZeroF(y) THEN ZERO(s)
     ELSE LET a == NormSig(Sig(x), Exp(x))
              b == NormSig(Sig(y), Exp(y))
              ah == a.n \div 4096
              al == a.n % 4096
              bh == b.n \div 4096
              bl == b.n % 4096
              mid == ah * bl + al * bh
              losum == al * bl + (mid % 4096) * 4096
              hi == ah * bh + (mid \div 4096) + (losum \div (2^24))
              lo == losum % (2^24)
              top == hi * 16 + (lo \div (2^20))
              n == IF lo % (2^20) # 0 /\ top % 2 = 0 THEN top + 1 ELSE top
              ex == a.ex + b.ex - 130
          IN RoundPack(s, n, ex)

\* bits further quotient bits of rem / den by long division (rem < den * 2)
RECURSIVE LongDiv(_, _, _, _)
LongDiv(rem, den, quo, bits) ==
  IF bits = 0 THEN [q |-> quo, r |-> rem]
  ELSE IF rem >= den
       THEN LongDiv(2 * (rem - den), den, 2 * quo + 1, bits - 1)
       ELSE LongDiv(2 * rem, den, 2 * quo, bits - 1)

\* f32 / f32
FDiv(x, y) ==
  LET s == IF x.s = y.s THEN 0 ELSE 1
  IN IF IsNaNF(x) \/ IsNaNF(y) THEN NAN
     ELSE IF IsInfF(x) THEN (IF IsInfF(y) THEN NAN ELSE INF(s))
     ELSE IF IsInfF(y) THEN ZERO(s)
     ELSE IF IsZeroF(y) THEN (IF IsZeroF(x) THEN NAN ELSE INF(s))
     ELSE IF IsZeroF(x) THEN ZERO(s)
     ELSE LET a == NormSig(Sig(x), Exp(x))
              b == NormSig(Sig(y), Exp(y))
              d == LongDiv(a.n, b.n, 0, 27)
              n == IF d.r # 0 /\ d.q % 2 = 0 THEN d.q + 1 ELSE d.q
              ex == a.ex - b.ex + 124
          IN RoundPack(s, n, ex)

(***************************************************************************)
(* The numeric tuple primitive (vek::vec::Rgb<f32>) as spectrum.rs uses it  *)
(***************************************************************************)
F0 == ZERO(0)

F1 == Float(0, 127, 0)

\* the literal 0.0001 of is_black, as the nearest f32
EPS == Float(0, 113, 5355287)

\* vek::ops::partial_max / partial_min on f32: `if a >= b { a } else { b }`
partial_max(x, y) == IF FGe(x, y) THEN x ELSE y

partial_min(x, y) == IF FLe(x, y) THEN x ELSE y

\* vek's Clamp::clamped01 on f32
clamped01(x) == partial_min(partial_max(x, F0), F1)

\* vek's reduce_partial_max: the fold of partial_max over r, g, b in order
reduce_partial_max(v) == partial_max(partial_max(v.r, v.g), v.b)

(***************************************************************************)
(* Rgb                                                                     *)
(***************************************************************************)
new(r, g, b) == [r |-> r, g |-> g, b |-> b]

zero == new(F0, F0, F0)

one == new(F1, F1, F1)

\* #[derive(PartialEq)]: channelwise f32 ==
RgbEq(v, w) == FEq(v.r, w.r) /\ FEq(v.g, w.g) /\ FEq(v.b, w.b)


\* saturated that clamps from above only
clamped_above(x) == partial_min(x, F1)

saturated_above_only(v) ==
  [r |-> clamped_above(v.r), g |-> clamped_above(v.g), b |-> clamped_above(v.b)]

saturated(v) ==
  [r |-> clamped01(v.r), g |-> clamped01(v.g), b |-> clamped01(v.b)]

max_channel(v) == reduce_partial_max(v)


\* is_black on the magnitude of the maximum channel instead of its signed value
is_black_magnitude(v) ==
  LET m == max_channel(v) IN FLt(IF IsNaNF(m) THEN m ELSE Float(0, m.e, m.m), EPS)

is_black(v) == FLt(max_channel(v), EPS)


\* is_nan that forgets the last channel
is_nan_two_channels(v) == IsNaNF(v.r) \/ IsNaNF(v.g)

is_nan(v) == IsNaNF(v.r) \/ IsNaNF(v.g) \/ IsNaNF(v.b)


\* add written with the operator of sub
add_as_sub(v, w) ==
  [r |-> FSub(v.r, w.r), g |-> FSub(v.g, w.g), b |-> FSub(v.b, w.b)]

add(v, w) ==
  [r |-> FAdd(v.r, w.r), g |-> FAdd(v.g, w.g), b |-> FAdd(v.b, w.b)]

sub(v, w) ==
  [r |-> FSub(v.r, w.r), g |-> FSub(v.g, w.g), b |-> FSub(v.b, w.b)]


\* elementwise mul written with the operator of add
mul_as_add(v, w) ==
  [r |-> FAdd(v.r, w.r), g |-> FAdd(v.g, w.g), b |-> FAdd(v.b, w.b)]

mul(v, w) ==
  [r |-> FMul(v.r, w.r), g |-> FMul(v.g, w.g), b |-> FMul(v.b, w.b)]


\* scalar div written with the operator of scalar mul
div_as_mul(v, x) ==
  [r |-> FMul(v.r, x), g |-> FMul(v.g, x), b |-> FMul(v.b, x)]

div_f32(v, x) ==
  [r |-> FDiv(v.r, x), g |-> FDiv(v.g, x), b |-> FDiv(v.b, x)]

mul_f32(v, x) ==
  [r |-> FMul(v.r, x), g |-> FMul(v.g, x), b |-> FMul(v.b, x)]

\* the in-place variants: `*self = *self <op> rhs`

\* add_assign that overwrites the receiver with its operand
add_assign_overwrite(v, w) == w

add_assign(v, w) == add(v, w)

sub_assign(v, w) == sub(v, w)

mul_assign(v, w) == mul(v, w)

div_assign_f32(v, x) == div_f32(v, x)

mul_assign_f32(v, x) == mul_f32(v, x)

\* Iterator::fold(init, |a, b| a + b)
RECURSIVE fold(_, _)
fold(init, items) ==
  IF items = <<>> THEN init ELSE fold(add(init, Head(items)), Tail(items))


\* sum seeded at one() instead of zero()
sum_from_one(items) == fold(one, items)

sum(items) == fold(zero, items)

(***************************************************************************)
(* Operands                                                                *)
(***************************************************************************)
MaxLen == 3

FHalf == Float(0, 126, 0)

FOneAndHalf == Float(0, 127, 4194304)

FMinusFifth == Float(1, 124, 5033165)

FTwo == Float(0, 128, 0)

FTenth == Float(0, 123, 5033165)

FFifth == Float(0, 124, 5033165)

FNineTenths == Float(0, 126, 6710886)

\* 2^-24: half a unit in the last place of 1.0
FHalfUlp == Float(0, 103, 0)

\* the f32 just below EPS
FBelowEps == Float(0, 113, 5355286)

\* the largest finite f32
FMax == Float(0, 254, Hidden - 1)

Cube(S) == {new(r, g, b) : r \in S, g \in S, b \in S}

ChanCore == {F0, FBelowEps, EPS, F1, FOneAndHalf, FMinusFifth, NAN}

ChanEdge == {ZERO(1), FHalf, FHalfUlp, FMax, INF(0), INF(1)}

Examples == {new(FFifth, FNineTenths, FTenth), new(FOneAndHalf, FMinusFifth, FHalf)}

\* the receivers
Receivers == Cube(ChanCore) \cup Cube(ChanEdge) \cup Examples

\* the right-hand Rgb operands
Operands ==
  { zero, one, new(ZERO(1), ZERO(1), ZERO(1)),
    new(FHalfUlp, FHalfUlp, FHalfUlp),
    new(FOneAndHalf, FMinusFifth, FHalf),
    new(NAN, F0, F0),
    new(INF(1), FMax, F1),
    new(FTenth, FFifth, FNineTenths) }

\* the scalar operands
Scalars == {F0, ZERO(1), FHalf, FTwo, FTenth, NAN}

\* the elements of summed sequences
Summands == {one, new(FHalfUlp, FHalfUlp, FHalfUlp), new(FOneAndHalf, FMinusFifth, FHalf)}

RECURSIVE SeqsUpTo(_, _)
SeqsUpTo(S, n) ==
  IF n = 0 THEN {<<>>}
  ELSE LET shorter == SeqsUpTo(S, n - 1)
       IN shorter \cup {Append(q, x) : q \in {p \in shorter : Len(p) = n - 1}, x \in S}

(***************************************************************************)
(* State: a receiver value, and the last operation applied to it with its   *)
(* operands and its result.                                                 *)
(***************************************************************************)
VARIABLES self, op, args, ret

vars == <<self, op, args, ret>>

Unit == "unit"

\* Rgb::new
Init ==
  /\ self \in Receivers
  /\ op = "new"
  /\ args = <<>>
  /\ ret = Unit

\* the methods taking &self and nothing else
Saturated ==
  /\ op = "new"
  /\ op' = "saturated"
  /\ args' = <<>>
  /\ ret' = saturated(self)
  /\ UNCHANGED self

IsBlack ==
  /\ op = "new"
  /\ op' = "is_black"
  /\ args' = <<>>
  /\ ret' = is_black(self)
  /\ UNCHANGED self

IsNan ==
  /\ op = "new"
  /\ op' = "is_nan"
  /\ args' = <<>>
  /\ ret' = is_nan(self)
  /\ UNCHANGED self

MaxChannel ==
  /\ op = "new"
  /\ op' = "max_channel"
  /\ args' = <<>>
  /\ ret' = max_channel(self)
  /\ UNCHANGED self

Sum ==
  /\ op = "new"
  /\ \E items \in SeqsUpTo(Summands, MaxLen) :
       /\ op' = "sum"
       /\ args' = items
       /\ ret' = sum(items)
  /\ UNCHANGED self

\* the by-value binary operators return a new value; the in-place operators
\* take &mut self, assign the receiver and return ()
Add ==
  /\ op = "new"
  /\ \E rhs \in Operands :
       /\ op' = "add"
       /\ args' = <<rhs>>
       /\ ret' = add(self, rhs)
  /\ UNCHANGED self

AddAssign ==
  /\ op = "new"
  /\ \E rhs \in Operands :
       /\ op' = "add_assign"
       /\ args' = <<rhs>>
       /\ self' = add_assign(self, rhs)
  /\ ret' = Unit

Sub ==
  /\ op = "new"
  /\ \E rhs \in Operands :
       /\ op' = "sub"
       /\ args' = <<rhs>>
       /\ ret' = sub(self, rhs)
  /\ UNCHANGED self

SubAssign ==
  /\ op = "new"
  /\ \E rhs \in Operands :
       /\ op' = "sub_assign"
       /\ args' = <<rhs>>
       /\ self' = sub_assign(self, rhs)
  /\ ret' = Unit

Div ==
  /\ op = "new"
  /\ \E rhs \in Scalars :
       /\ op' = "div_f32"
       /\ args' = <<rhs>>
       /\ ret' = div_f32(self, rhs)
  /\ UNCHANGED self

DivAssign ==
  /\ op = "new"
  /\ \E rhs \in Scalars :
       /\ op' = "div_assign_f32"
       /\ args' = <<rhs>>
       /\ self' = div_assign_f32(self, rhs)
  /\ ret' = Unit

MulScalar ==
  /\ op = "new"
  /\ \E rhs \in Scalars :
       /\ op' = "mul_f32"
       /\ args' = <<rhs>>
       /\ ret' = mul_f32(self, rhs)
  /\ UNCHANGED self

MulAssignScalar ==
  /\ op = "new"
  /\ \E rhs \in Scalars :
       /\ op' = "mul_assign_f32"
       /\ args' = <<rhs>>
       /\ self' = mul_assign_f32(self, rhs)
  /\ ret' = Unit

Mul ==
  /\ op = "new"
  /\ \E rhs \in Operands :
       /\ op' = "mul"
       /\ args' = <<rhs>>
       /\ ret' = mul(self, rhs)
  /\ UNCHANGED self

MulAssign ==
  /\ op = "new"
  /\ \E rhs \in Operands :
       /\ op' = "mul_assign"
       /\ args' = <<rhs>>
       /\ self' = mul_assign(self, rhs)
  /\ ret' = Unit

Next ==
  \/ Saturated
  \/ IsBlack
  \/ IsNan
  \/ MaxChannel
  \/ Sum
  \/ Add
  \/ AddAssign
  \/ Sub
  \/ SubAssign
  \/ Div
  \/ DivAssign
  \/ MulScalar
  \/ MulAssignScalar
  \/ Mul
  \/ MulAssign

Spec == Init /\ [][Next]_vars

(***************************************************************************)
(* Properties                                                              *)
(***************************************************************************)
Channels(v) == {v.r, v.g, v.b}

\* the channel by channel f32 sum
ChanAdd(v, w) ==
  [r |-> FAdd(v.r, w.r), g |-> FAdd(v.g, w.g), b |-> FAdd(v.b, w.b)]

HasNaN(v) == \E x \in Channels(v) : ~FEq(x, x)

AllFinite(v) == \A x \in Channels(v) : IsFiniteF(x)

AllInfinite(v) == \A x \in Channels(v) : IsInfF(x)

\* x + y incurs no rounding and no overflow: Knuth's TwoSum error term is zero
ExactAdd(x, y) ==
  LET s == FAdd(x, y)
      bb == FSub(s, x)
      err == FAdd(FSub(x, FSub(s, bb)), FSub(y, bb))
  IN IsFiniteF(x) /\ IsFiniteF(y) /\ IsFiniteF(s) /\ FEq(err, F0)

ExactAddRgb(v, w) == ExactAdd(v.r, w.r) /\ ExactAdd(v.g, w.g) /\ ExactAdd(v.b, w.b)

\* C1: Sum::sum is the left fold of + seeded at zero(): the empty sequence
\* sums to zero(), a sequence [a, b, c] to ((zero() + a) + b) + c channel by
\* channel, and any non-empty sequence to the sum of its front plus its last.
C1_SumIsLeftFold ==
  op = "sum" =>
    /\ (args = <<>> => ret = zero)
    /\ (Len(args) = 3 =>
          ret = ChanAdd(ChanAdd(ChanAdd(zero, args[1]), args[2]), args[3]))
    /\ (args # <<>> =>
          ret = ChanAdd(sum(SubSeq(args, 1, Len(args) - 1)), args[Len(args)]))

C1_Witness ==
  /\ op = "sum"
  /\ args = <<one, new(FHalfUlp, FHalfUlp, FHalfUlp), new(FHalfUlp, FHalfUlp, FHalfUlp)>>
  /\ ret = one

\* C2: is_black() is true exactly when the signed maximum channel is below
\* 0.0001: a value whose channels are all negative is black, zero() is black
\* and one() is not.
C2_IsBlackIffMaxBelowEps ==
  op = "is_black" =>
    /\ ret = FLt(max_channel(self), EPS)
    /\ ((\A x \in Channels(self) : FLt(x, F0)) => ret = TRUE)
    /\ (self = zero => ret = TRUE)
    /\ (self = one => ret = FALSE)

C2_Witness ==
  /\ op = "is_black"
  /\ self = new(FMinusFifth, FMinusFifth, FMinusFifth)
  /\ ret = TRUE

\* C3: is_nan() is true if and only if some channel is NaN (a value that is
\* not equal to itself); infinite and finite channels never make it true.
C3_IsNanIffSomeChannelNaN ==
  op = "is_nan" =>
    /\ ret = (\E x \in Channels(self) : ~FEq(x, x))
    /\ ((\A x \in Channels(self) : IsFiniteF(x) \/ IsInfF(x)) => ret = FALSE)
    /\ (self = new(NAN, F0, F0) => ret = TRUE)
    /\ (self = zero => ret = FALSE)

C3_Witness ==
  /\ op = "is_nan"
  /\ self = new(F0, F0, NAN)
  /\ ret = TRUE

\* the value a scalar division leaves: returned by /, stored in self by /=
Quotient(o, s, r) == IF o = "div_f32" THEN r ELSE s

\* C4 as stated: v / 0.0 and v /= 0.0 on a finite non-zero Rgb value v (all
\* channels finite, v != zero()) give a value whose channels are all infinite
\* and whose is_nan() is false.
C4_Original ==
  [][(/\ op' \in {"div_f32", "div_assign_f32"}
      /\ FEq(args'[1], F0)
      /\ AllFinite(self)
      /\ ~RgbEq(self, zero))
     => (/\ AllInfinite(Quotient(op', self', ret'))
         /\ ~is_nan(Quotient(op', self', ret')))]_vars

\* C4 amended: v / 0.0 and v /= 0.0 on a value v whose channels are all
\* finite and all non-zero give a value whose channels are all infinite and
\* whose is_nan() is false.
C4_DivByZeroAllChannelsNonZero ==
  [][(/\ op' \in {"div_f32", "div_assign_f32"}
      /\ FEq(args'[1], F0)
      /\ AllFinite(self)
      /\ \A x \in Channels(self) : ~FEq(x, F0))
     => (/\ AllInfinite(Quotient(op', self', ret'))
         /\ ~is_nan(Quotient(op', self', ret')))]_vars

C4_Witness ==
  /\ op = "div_assign_f32"
  /\ args = <<F0>>
  /\ self = new(INF(0), INF(1), INF(0))

\* C5 as stated: for every a, a + zero() == a, a * one() == a and
\* a * zero() == zero() under the derived ==.
C5_Original ==
  /\ (op = "add" /\ args = <<zero>> => RgbEq(ret, self))
  /\ (op = "mul" /\ args = <<one>> => RgbEq(ret, self))
  /\ (op = "mul" /\ args = <<zero>> => RgbEq(ret, zero))

\* C5 amended: a + zero() == a and a * one() == a for every a with no NaN
\* channel, and a * zero() == zero() for every a whose channels are all finite.
C5_IdentitiesWithoutNaN ==
  /\ (op = "add" /\ args = <<zero>> /\ ~HasNaN(self) => RgbEq(ret, self))
  /\ (op = "mul" /\ args = <<one>> /\ ~HasNaN(self) => RgbEq(ret, self))
  /\ (op = "mul" /\ args = <<zero>> /\ AllFinite(self) => RgbEq(ret, zero))

C5_Witness ==
  /\ op = "mul"
  /\ args = <<one>>
  /\ self = new(FOneAndHalf, FMinusFifth, FHalf)
  /\ ret = self

Clamped(x, y) ==
  /\ (FLt(x, F0) => y = F0)
  /\ (FLt(F1, x) => y = F1)
  /\ (FGe(x, F0) /\ FLe(x, F1) => y = x)

\* C7: saturated() returns a value whose every channel is the receiver's
\* channel clamped to [0,1] (below 0 becomes 0, above 1 becomes 1, inside
\* unchanged) and leaves the receiver unchanged;
\* RGB(1.5,-0.2,0.5).saturated() == RGB(1.0,0.0,0.5).
C7_SaturatedClampsEachChannel ==
  [][op' = "saturated" =>
       /\ self' = self
       /\ Clamped(self.r, ret'.r)
       /\ Clamped(self.g, ret'.g)
       /\ Clamped(self.b, ret'.b)
       /\ (self = new(FOneAndHalf, FMinusFifth, FHalf) => ret' = new(F1, F0, FHalf))]_vars

C7_Witness ==
  /\ op = "saturated"
  /\ self = new(FOneAndHalf, FMinusFifth, FHalf)
  /\ ret = new(F1, F0, FHalf)

\* C8: max_channel() is the maximum of the three channels: it is one of them
\* and no channel is greater than it; max_channel(RGB(0.2,0.9,0.1)) == 0.9.
C8_MaxChannelIsMaximum ==
  op = "max_channel" =>
    /\ ret \in Channels(self)
    /\ \A x \in Channels(self) : ~FLt(ret, x)
    /\ (self = new(FFifth, FNineTenths, FTenth) => ret = FNineTenths)

\* C9: each in-place operator leaves in its receiver what the binary operator
\* returns for the old receiver and the same operand.
C9_InPlaceAgreesWithBinary ==
  [][/\ (op' = "add_assign" => self' = add(self, args'[1]))
     /\ (op' = "sub_assign" => self' = sub(self, args'[1]))
     /\ (op' = "mul_assign" => self' = mul(self, args'[1]))
     /\ (op' = "mul_assign_f32" => self' = mul_f32(self, args'[1]))
     /\ (op' = "div_assign_f32" => self' = div_f32(self, args'[1]))]_vars

C9_Witness ==
  /\ op = "add_assign"
  /\ args = <<one>>
  /\ self = new(Float(0, 128, 2^21), Float(0, 128, 2^21), Float(0, 128, 2^21))

\* C10: a value with a NaN channel and another channel of at least 0.0001,
\* in whichever positions, has is_nan() true and is_black() false.
C10_NaNWithLargeChannelIsNotBlack ==
  (HasNaN(self) /\ \E x \in Channels(self) : FGe(x, EPS)) =>
    /\ (op = "is_nan" => ret = TRUE)
    /\ (op = "is_black" => ret = FALSE)
====
